---------------------------- MODULE Spec2Model ----------------------------
(***************************************************************************)
(* Model of generate_changelog.py: the changelog builder that resolves a   *)
(* commit range for a release tag, fetches the commit records, cleans each *)
(* subject and renders a Markdown block.                                   *)
(*                                                                         *)
(* A Python str is the sequence of its Unicode code points, so that every  *)
(* character a commit can carry has a value; Text("...") is the str a      *)
(* literal of the program denotes.  An optional value is a record: None,   *)
(* or Some(v).                                                             *)
(***************************************************************************)
EXTENDS Integers, Sequences, FiniteSets, TLC

\* ------------------------------------------------------------------------
\* Literals
\* ------------------------------------------------------------------------

\* The printable ASCII characters U+0020..U+005F and U+0061..U+007E, in
\* code point order.
Printable ==
    <<" !\"#$%&'()*+,-./0123456789:;<=>?@ABCDEFGHIJKLMNOPQRSTUVWXYZ[\\]^_",
      "abcdefghijklmnopqrstuvwxyz{|}~">>

\* ord(c) for the characters a literal is written with.
OrdTable ==
    [c \in {SubSeq(Printable[1], i, i) : i \in 1..Len(Printable[1])}
           \cup {SubSeq(Printable[2], i, i) : i \in 1..Len(Printable[2])}
           \cup {"\t", "\n", "\f", "\r"} |->
        IF c = "\t" THEN 9
        ELSE IF c = "\n" THEN 10
        ELSE IF c = "\f" THEN 12
        ELSE IF c = "\r" THEN 13
        ELSE IF \E i \in 1..Len(Printable[1]) : SubSeq(Printable[1], i, i) = c
             THEN 31 + CHOOSE i \in 1..Len(Printable[1]) : SubSeq(Printable[1], i, i) = c
             ELSE 96 + CHOOSE i \in 1..Len(Printable[2]) : SubSeq(Printable[2], i, i) = c]

Ord(c) == OrdTable[c]

\* The str of a literal: its code points, in order.
Text(lit) == [i \in 1..Len(lit) |-> Ord(SubSeq(lit, i, i))]

\* ------------------------------------------------------------------------
\* Python string primitives
\* ------------------------------------------------------------------------

\* ord(s[i-1]) in Python terms; -1, which is no character, when i is outside
\* the string.
At(s, i) == IF i >= 1 /\ i <= Len(s) THEN s[i] ELSE -1

\* s[i-1:] in Python terms.
From(s, i) == IF i > Len(s) THEN <<>> ELSE SubSeq(s, i, Len(s))

\* Whether lit occurs in s at position i.
StartsAt(s, i, lit) ==
    /\ i >= 1
    /\ i + Len(lit) - 1 <= Len(s)
    /\ SubSeq(s, i, i + Len(lit) - 1) = lit

\* The character classes and case mappings below are those of CPython 3.11
\* (Unicode 14.0), over all code points.

\* The characters str.isspace() holds of: what str.strip() removes and the
\* regex class \s matches.
Whitespace ==
    {9, 10, 11, 12, 13, 28, 29, 30, 31, 32, 133, 160,
     5760, 8192, 8193, 8194, 8195, 8196, 8197, 8198, 8199, 8200, 8201, 8202,
     8232, 8233, 8239, 8287, 12288}

IsSpace(c) == c \in Whitespace

\* The digit zero of every script that has decimal digits; the nine code
\* points after each are its digits one to nine.
DigitZeros ==
    {48, 1632, 1776, 1984, 2406, 2534, 2662, 2790, 2918, 3046,
     3174, 3302, 3430, 3558, 3664, 3792, 3872, 4160, 4240, 6112,
     6160, 6470, 6608, 6784, 6800, 6992, 7088, 7232, 7248, 42528,
     43216, 43264, 43472, 43504, 43600, 44016, 65296, 66720, 68912, 69734,
     69872, 69942, 70096, 70384, 70736, 70864, 71248, 71360, 71472, 71904,
     72016, 72784, 73040, 73120, 92768, 92864, 93008, 120782, 120792, 120802,
     120812, 120822, 123200, 123632, 125264, 130032}

Digits == UNION {z..(z + 9) : z \in DigitZeros}

\* The regex class \d: the characters str.isdecimal() holds of.
IsDigit(c) == c \in Digits

\* A run <<first, last, step, offset>> of a case mapping: first, first + step,
\* ..., last each map to themselves plus offset.
InRun(c, r) == c >= r[1] /\ c <= r[2] /\ (c - r[1]) % r[3] = 0

\* The code points the runs of a mapping may hold.
Span(rs) == UNION {r[1]..r[2] : r \in rs}

\* The image of c under the mapping with runs rs; c itself when no run
\* holds it.
MapBy(rs, c) ==
    IF \E r \in rs : InRun(c, r)
    THEN c + (CHOOSE r \in rs : InRun(c, r))[4]
    ELSE c

\* The lower-case mapping of the characters that have a one-character lower
\* case other than themselves.
LowerRuns ==
    {<<65, 90, 1, 32>>, <<192, 214, 1, 32>>, <<216, 222, 1, 32>>,
     <<256, 302, 2, 1>>, <<306, 310, 2, 1>>, <<313, 327, 2, 1>>,
     <<330, 374, 2, 1>>, <<376, 376, 1, -121>>, <<377, 381, 2, 1>>,
     <<385, 385, 1, 210>>, <<386, 388, 2, 1>>, <<390, 390, 1, 206>>,
     <<391, 391, 1, 1>>, <<393, 394, 1, 205>>, <<395, 395, 1, 1>>,
     <<398, 398, 1, 79>>, <<399, 399, 1, 202>>, <<400, 400, 1, 203>>,
     <<401, 401, 1, 1>>, <<403, 403, 1, 205>>, <<404, 404, 1, 207>>,
     <<406, 406, 1, 211>>, <<407, 407, 1, 209>>, <<408, 408, 1, 1>>,
     <<412, 412, 1, 211>>, <<413, 413, 1, 213>>, <<415, 415, 1, 214>>,
     <<416, 420, 2, 1>>, <<422, 422, 1, 218>>, <<423, 423, 1, 1>>,
     <<425, 425, 1, 218>>, <<428, 428, 1, 1>>, <<430, 430, 1, 218>>,
     <<431, 431, 1, 1>>, <<433, 434, 1, 217>>, <<435, 437, 2, 1>>,
     <<439, 439, 1, 219>>, <<440, 440, 1, 1>>, <<444, 444, 1, 1>>,
     <<452, 452, 1, 2>>, <<453, 453, 1, 1>>, <<455, 455, 1, 2>>,
     <<456, 456, 1, 1>>, <<458, 458, 1, 2>>, <<459, 475, 2, 1>>,
     <<478, 494, 2, 1>>, <<497, 497, 1, 2>>, <<498, 500, 2, 1>>,
     <<502, 502, 1, -97>>, <<503, 503, 1, -56>>, <<504, 542, 2, 1>>,
     <<544, 544, 1, -130>>, <<546, 562, 2, 1>>, <<570, 570, 1, 10795>>,
     <<571, 571, 1, 1>>, <<573, 573, 1, -163>>, <<574, 574, 1, 10792>>,
     <<577, 577, 1, 1>>, <<579, 579, 1, -195>>, <<580, 580, 1, 69>>,
     <<581, 581, 1, 71>>, <<582, 590, 2, 1>>, <<880, 882, 2, 1>>,
     <<886, 886, 1, 1>>, <<895, 895, 1, 116>>, <<902, 902, 1, 38>>,
     <<904, 906, 1, 37>>, <<908, 908, 1, 64>>, <<910, 911, 1, 63>>,
     <<913, 929, 1, 32>>, <<931, 939, 1, 32>>, <<975, 975, 1, 8>>,
     <<984, 1006, 2, 1>>, <<1012, 1012, 1, -60>>, <<1015, 1015, 1, 1>>,
     <<1017, 1017, 1, -7>>, <<1018, 1018, 1, 1>>, <<1021, 1023, 1, -130>>,
     <<1024, 1039, 1, 80>>, <<1040, 1071, 1, 32>>, <<1120, 1152, 2, 1>>,
     <<1162, 1214, 2, 1>>, <<1216, 1216, 1, 15>>, <<1217, 1229, 2, 1>>,
     <<1232, 1326, 2, 1>>, <<1329, 1366, 1, 48>>, <<4256, 4293, 1, 7264>>,
     <<4295, 4295, 1, 7264>>, <<4301, 4301, 1, 7264>>, <<5024, 5103, 1, 38864>>,
     <<5104, 5109, 1, 8>>, <<7312, 7354, 1, -3008>>, <<7357, 7359, 1, -3008>>,
     <<7680, 7828, 2, 1>>, <<7838, 7838, 1, -7615>>, <<7840, 7934, 2, 1>>,
     <<7944, 7951, 1, -8>>, <<7960, 7965, 1, -8>>, <<7976, 7983, 1, -8>>,
     <<7992, 7999, 1, -8>>, <<8008, 8013, 1, -8>>, <<8025, 8031, 2, -8>>,
     <<8040, 8047, 1, -8>>, <<8072, 8079, 1, -8>>, <<8088, 8095, 1, -8>>,
     <<8104, 8111, 1, -8>>, <<8120, 8121, 1, -8>>, <<8122, 8123, 1, -74>>,
     <<8124, 8124, 1, -9>>, <<8136, 8139, 1, -86>>, <<8140, 8140, 1, -9>>,
     <<8152, 8153, 1, -8>>, <<8154, 8155, 1, -100>>, <<8168, 8169, 1, -8>>,
     <<8170, 8171, 1, -112>>, <<8172, 8172, 1, -7>>, <<8184, 8185, 1, -128>>,
     <<8186, 8187, 1, -126>>, <<8188, 8188, 1, -9>>, <<8486, 8486, 1, -7517>>,
     <<8490, 8490, 1, -8383>>, <<8491, 8491, 1, -8262>>, <<8498, 8498, 1, 28>>,
     <<8544, 8559, 1, 16>>, <<8579, 8579, 1, 1>>, <<9398, 9423, 1, 26>>,
     <<11264, 11311, 1, 48>>, <<11360, 11360, 1, 1>>, <<11362, 11362, 1, -10743>>,
     <<11363, 11363, 1, -3814>>, <<11364, 11364, 1, -10727>>, <<11367, 11371, 2, 1>>,
     <<11373, 11373, 1, -10780>>, <<11374, 11374, 1, -10749>>, <<11375, 11375, 1, -10783>>,
     <<11376, 11376, 1, -10782>>, <<11378, 11378, 1, 1>>, <<11381, 11381, 1, 1>>,
     <<11390, 11391, 1, -10815>>, <<11392, 11490, 2, 1>>, <<11499, 11501, 2, 1>>,
     <<11506, 11506, 1, 1>>, <<42560, 42604, 2, 1>>, <<42624, 42650, 2, 1>>,
     <<42786, 42798, 2, 1>>, <<42802, 42862, 2, 1>>, <<42873, 42875, 2, 1>>,
     <<42877, 42877, 1, -35332>>, <<42878, 42886, 2, 1>>, <<42891, 42891, 1, 1>>,
     <<42893, 42893, 1, -42280>>, <<42896, 42898, 2, 1>>, <<42902, 42920, 2, 1>>,
     <<42922, 42922, 1, -42308>>, <<42923, 42923, 1, -42319>>, <<42924, 42924, 1, -42315>>,
     <<42925, 42925, 1, -42305>>, <<42926, 42926, 1, -42308>>, <<42928, 42928, 1, -42258>>,
     <<42929, 42929, 1, -42282>>, <<42930, 42930, 1, -42261>>, <<42931, 42931, 1, 928>>,
     <<42932, 42946, 2, 1>>, <<42948, 42948, 1, -48>>, <<42949, 42949, 1, -42307>>,
     <<42950, 42950, 1, -35384>>, <<42951, 42953, 2, 1>>, <<42960, 42960, 1, 1>>,
     <<42966, 42968, 2, 1>>, <<42997, 42997, 1, 1>>, <<65313, 65338, 1, 32>>,
     <<66560, 66599, 1, 40>>, <<66736, 66771, 1, 40>>, <<66928, 66938, 1, 39>>,
     <<66940, 66954, 1, 39>>, <<66956, 66962, 1, 39>>, <<66964, 66965, 1, 39>>,
     <<68736, 68786, 1, 64>>, <<71840, 71871, 1, 32>>, <<93760, 93791, 1, 32>>,
     <<125184, 125217, 1, 34>>}

LowerSpan == Span(LowerRuns)

\* U+0130, capital I with dot above: the one character whose lower case is
\* two characters, U+0069 U+0307.
CapitalIDot == 304
LowerOfCapitalIDot == <<105, 775>>

\* str.lower() of the one-character string c.
LowerChar(c) ==
    IF c = CapitalIDot THEN LowerOfCapitalIDot
    ELSE IF c \in LowerSpan THEN <<MapBy(LowerRuns, c)>>
    ELSE <<c>>

\* The title-case mapping of the characters that have a one-character title
\* case other than themselves.
TitleRuns ==
    {<<97, 122, 1, -32>>, <<181, 181, 1, 743>>, <<224, 246, 1, -32>>,
     <<248, 254, 1, -32>>, <<255, 255, 1, 121>>, <<257, 303, 2, -1>>,
     <<305, 305, 1, -232>>, <<307, 311, 2, -1>>, <<314, 328, 2, -1>>,
     <<331, 375, 2, -1>>, <<378, 382, 2, -1>>, <<383, 383, 1, -300>>,
     <<384, 384, 1, 195>>, <<387, 389, 2, -1>>, <<392, 392, 1, -1>>,
     <<396, 396, 1, -1>>, <<402, 402, 1, -1>>, <<405, 405, 1, 97>>,
     <<409, 409, 1, -1>>, <<410, 410, 1, 163>>, <<414, 414, 1, 130>>,
     <<417, 421, 2, -1>>, <<424, 424, 1, -1>>, <<429, 429, 1, -1>>,
     <<432, 432, 1, -1>>, <<436, 438, 2, -1>>, <<441, 441, 1, -1>>,
     <<445, 445, 1, -1>>, <<447, 447, 1, 56>>, <<452, 452, 1, 1>>,
     <<454, 454, 1, -1>>, <<455, 455, 1, 1>>, <<457, 457, 1, -1>>,
     <<458, 458, 1, 1>>, <<460, 476, 2, -1>>, <<477, 477, 1, -79>>,
     <<479, 495, 2, -1>>, <<497, 497, 1, 1>>, <<499, 501, 2, -1>>,
     <<505, 543, 2, -1>>, <<547, 563, 2, -1>>, <<572, 572, 1, -1>>,
     <<575, 576, 1, 10815>>, <<578, 578, 1, -1>>, <<583, 591, 2, -1>>,
     <<592, 592, 1, 10783>>, <<593, 593, 1, 10780>>, <<594, 594, 1, 10782>>,
     <<595, 595, 1, -210>>, <<596, 596, 1, -206>>, <<598, 599, 1, -205>>,
     <<601, 601, 1, -202>>, <<603, 603, 1, -203>>, <<604, 604, 1, 42319>>,
     <<608, 608, 1, -205>>, <<609, 609, 1, 42315>>, <<611, 611, 1, -207>>,
     <<613, 613, 1, 42280>>, <<614, 614, 1, 42308>>, <<616, 616, 1, -209>>,
     <<617, 617, 1, -211>>, <<618, 618, 1, 42308>>, <<619, 619, 1, 10743>>,
     <<620, 620, 1, 42305>>, <<623, 623, 1, -211>>, <<625, 625, 1, 10749>>,
     <<626, 626, 1, -213>>, <<629, 629, 1, -214>>, <<637, 637, 1, 10727>>,
     <<640, 640, 1, -218>>, <<642, 642, 1, 42307>>, <<643, 643, 1, -218>>,
     <<647, 647, 1, 42282>>, <<648, 648, 1, -218>>, <<649, 649, 1, -69>>,
     <<650, 651, 1, -217>>, <<652, 652, 1, -71>>, <<658, 658, 1, -219>>,
     <<669, 669, 1, 42261>>, <<670, 670, 1, 42258>>, <<837, 837, 1, 84>>,
     <<881, 883, 2, -1>>, <<887, 887, 1, -1>>, <<891, 893, 1, 130>>,
     <<940, 940, 1, -38>>, <<941, 943, 1, -37>>, <<945, 961, 1, -32>>,
     <<962, 962, 1, -31>>, <<963, 971, 1, -32>>, <<972, 972, 1, -64>>,
     <<973, 974, 1, -63>>, <<976, 976, 1, -62>>, <<977, 977, 1, -57>>,
     <<981, 981, 1, -47>>, <<982, 982, 1, -54>>, <<983, 983, 1, -8>>,
     <<985, 1007, 2, -1>>, <<1008, 1008, 1, -86>>, <<1009, 1009, 1, -80>>,
     <<1010, 1010, 1, 7>>, <<1011, 1011, 1, -116>>, <<1013, 1013, 1, -96>>,
     <<1016, 1016, 1, -1>>, <<1019, 1019, 1, -1>>, <<1072, 1103, 1, -32>>,
     <<1104, 1119, 1, -80>>, <<1121, 1153, 2, -1>>, <<1163, 1215, 2, -1>>,
     <<1218, 1230, 2, -1>>, <<1231, 1231, 1, -15>>, <<1233, 1327, 2, -1>>,
     <<1377, 1414, 1, -48>>, <<5112, 5117, 1, -8>>, <<7296, 7296, 1, -6254>>,
     <<7297, 7297, 1, -6253>>, <<7298, 7298, 1, -6244>>, <<7299, 7300, 1, -6242>>,
     <<7301, 7301, 1, -6243>>, <<7302, 7302, 1, -6236>>, <<7303, 7303, 1, -6181>>,
     <<7304, 7304, 1, 35266>>, <<7545, 7545, 1, 35332>>, <<7549, 7549, 1, 3814>>,
     <<7566, 7566, 1, 35384>>, <<7681, 7829, 2, -1>>, <<7835, 7835, 1, -59>>,
     <<7841, 7935, 2, -1>>, <<7936, 7943, 1, 8>>, <<7952, 7957, 1, 8>>,
     <<7968, 7975, 1, 8>>, <<7984, 7991, 1, 8>>, <<8000, 8005, 1, 8>>,
     <<8017, 8023, 2, 8>>, <<8032, 8039, 1, 8>>, <<8048, 8049, 1, 74>>,
     <<8050, 8053, 1, 86>>, <<8054, 8055, 1, 100>>, <<8056, 8057, 1, 128>>,
     <<8058, 8059, 1, 112>>, <<8060, 8061, 1, 126>>, <<8064, 8071, 1, 8>>,
     <<8080, 8087, 1, 8>>, <<8096, 8103, 1, 8>>, <<8112, 8113, 1, 8>>,
     <<8115, 8115, 1, 9>>, <<8126, 8126, 1, -7205>>, <<8131, 8131, 1, 9>>,
     <<8144, 8145, 1, 8>>, <<8160, 8161, 1, 8>>, <<8165, 8165, 1, 7>>,
     <<8179, 8179, 1, 9>>, <<8526, 8526, 1, -28>>, <<8560, 8575, 1, -16>>,
     <<8580, 8580, 1, -1>>, <<9424, 9449, 1, -26>>, <<11312, 11359, 1, -48>>,
     <<11361, 11361, 1, -1>>, <<11365, 11365, 1, -10795>>, <<11366, 11366, 1, -10792>>,
     <<11368, 11372, 2, -1>>, <<11379, 11379, 1, -1>>, <<11382, 11382, 1, -1>>,
     <<11393, 11491, 2, -1>>, <<11500, 11502, 2, -1>>, <<11507, 11507, 1, -1>>,
     <<11520, 11557, 1, -7264>>, <<11559, 11559, 1, -7264>>, <<11565, 11565, 1, -7264>>,
     <<42561, 42605, 2, -1>>, <<42625, 42651, 2, -1>>, <<42787, 42799, 2, -1>>,
     <<42803, 42863, 2, -1>>, <<42874, 42876, 2, -1>>, <<42879, 42887, 2, -1>>,
     <<42892, 42892, 1, -1>>, <<42897, 42899, 2, -1>>, <<42900, 42900, 1, 48>>,
     <<42903, 42921, 2, -1>>, <<42933, 42947, 2, -1>>, <<42952, 42954, 2, -1>>,
     <<42961, 42961, 1, -1>>, <<42967, 42969, 2, -1>>, <<42998, 42998, 1, -1>>,
     <<43859, 43859, 1, -928>>, <<43888, 43967, 1, -38864>>, <<65345, 65370, 1, -32>>,
     <<66600, 66639, 1, -40>>, <<66776, 66811, 1, -40>>, <<66967, 66977, 1, -39>>,
     <<66979, 66993, 1, -39>>, <<66995, 67001, 1, -39>>, <<67003, 67004, 1, -39>>,
     <<68800, 68850, 1, -64>>, <<71872, 71903, 1, -32>>, <<93792, 93823, 1, -32>>,
     <<125218, 125251, 1, -34>>}

TitleSpan == Span(TitleRuns)

\* <<c, title case of c>> for the characters whose title case is more than
\* one character.
TitleSpecial ==
    {<<223, <<83, 115>>>>, <<329, <<700, 78>>>>, <<496, <<74, 780>>>>,
     <<912, <<921, 776, 769>>>>, <<944, <<933, 776, 769>>>>, <<1415, <<1333, 1410>>>>,
     <<7830, <<72, 817>>>>, <<7831, <<84, 776>>>>, <<7832, <<87, 778>>>>,
     <<7833, <<89, 778>>>>, <<7834, <<65, 702>>>>, <<8016, <<933, 787>>>>,
     <<8018, <<933, 787, 768>>>>, <<8020, <<933, 787, 769>>>>, <<8022, <<933, 787, 834>>>>,
     <<8114, <<8122, 837>>>>, <<8116, <<902, 837>>>>, <<8118, <<913, 834>>>>,
     <<8119, <<913, 834, 837>>>>, <<8130, <<8138, 837>>>>, <<8132, <<905, 837>>>>,
     <<8134, <<919, 834>>>>, <<8135, <<919, 834, 837>>>>, <<8146, <<921, 776, 768>>>>,
     <<8147, <<921, 776, 769>>>>, <<8150, <<921, 834>>>>, <<8151, <<921, 776, 834>>>>,
     <<8162, <<933, 776, 768>>>>, <<8163, <<933, 776, 769>>>>, <<8164, <<929, 787>>>>,
     <<8166, <<933, 834>>>>, <<8167, <<933, 776, 834>>>>, <<8178, <<8186, 837>>>>,
     <<8180, <<911, 837>>>>, <<8182, <<937, 834>>>>, <<8183, <<937, 834, 837>>>>,
     <<64256, <<70, 102>>>>, <<64257, <<70, 105>>>>, <<64258, <<70, 108>>>>,
     <<64259, <<70, 102, 105>>>>, <<64260, <<70, 102, 108>>>>, <<64261, <<83, 116>>>>,
     <<64262, <<83, 116>>>>, <<64275, <<1348, 1398>>>>, <<64276, <<1348, 1381>>>>,
     <<64277, <<1348, 1387>>>>, <<64278, <<1358, 1398>>>>, <<64279, <<1348, 1389>>>>}

TitleSpecialChars == {p[1] : p \in TitleSpecial}

\* The first character of str.capitalize(): the title case of c.
TitleChar(c) ==
    IF c \in TitleSpecialChars THEN (CHOOSE p \in TitleSpecial : p[1] = c)[2]
    ELSE IF c \in TitleSpan THEN <<MapBy(TitleRuns, c)>>
    ELSE <<c>>

\* The ranges <<first, last>> of the case-ignorable characters.
CaseIgnorableRanges ==
    {<<39, 39>>, <<46, 46>>, <<58, 58>>, <<94, 94>>, <<96, 96>>,
     <<168, 168>>, <<173, 173>>, <<175, 175>>, <<180, 180>>, <<183, 184>>,
     <<688, 879>>, <<884, 885>>, <<890, 890>>, <<900, 901>>, <<903, 903>>,
     <<1155, 1161>>, <<1369, 1369>>, <<1375, 1375>>, <<1425, 1469>>, <<1471, 1471>>,
     <<1473, 1474>>, <<1476, 1477>>, <<1479, 1479>>, <<1524, 1524>>, <<1536, 1541>>,
     <<1552, 1562>>, <<1564, 1564>>, <<1600, 1600>>, <<1611, 1631>>, <<1648, 1648>>,
     <<1750, 1757>>, <<1759, 1768>>, <<1770, 1773>>, <<1807, 1807>>, <<1809, 1809>>,
     <<1840, 1866>>, <<1958, 1968>>, <<2027, 2037>>, <<2042, 2042>>, <<2045, 2045>>,
     <<2070, 2093>>, <<2137, 2139>>, <<2184, 2184>>, <<2192, 2193>>, <<2200, 2207>>,
     <<2249, 2306>>, <<2362, 2362>>, <<2364, 2364>>, <<2369, 2376>>, <<2381, 2381>>,
     <<2385, 2391>>, <<2402, 2403>>, <<2417, 2417>>, <<2433, 2433>>, <<2492, 2492>>,
     <<2497, 2500>>, <<2509, 2509>>, <<2530, 2531>>, <<2558, 2558>>, <<2561, 2562>>,
     <<2620, 2620>>, <<2625, 2626>>, <<2631, 2632>>, <<2635, 2637>>, <<2641, 2641>>,
     <<2672, 2673>>, <<2677, 2677>>, <<2689, 2690>>, <<2748, 2748>>, <<2753, 2757>>,
     <<2759, 2760>>, <<2765, 2765>>, <<2786, 2787>>, <<2810, 2815>>, <<2817, 2817>>,
     <<2876, 2876>>, <<2879, 2879>>, <<2881, 2884>>, <<2893, 2893>>, <<2901, 2902>>,
     <<2914, 2915>>, <<2946, 2946>>, <<3008, 3008>>, <<3021, 3021>>, <<3072, 3072>>,
     <<3076, 3076>>, <<3132, 3132>>, <<3134, 3136>>, <<3142, 3144>>, <<3146, 3149>>,
     <<3157, 3158>>, <<3170, 3171>>, <<3201, 3201>>, <<3260, 3260>>, <<3263, 3263>>,
     <<3270, 3270>>, <<3276, 3277>>, <<3298, 3299>>, <<3328, 3329>>, <<3387, 3388>>,
     <<3393, 3396>>, <<3405, 3405>>, <<3426, 3427>>, <<3457, 3457>>, <<3530, 3530>>,
     <<3538, 3540>>, <<3542, 3542>>, <<3633, 3633>>, <<3636, 3642>>, <<3654, 3662>>,
     <<3761, 3761>>, <<3764, 3772>>, <<3782, 3782>>, <<3784, 3789>>, <<3864, 3865>>,
     <<3893, 3893>>, <<3895, 3895>>, <<3897, 3897>>, <<3953, 3966>>, <<3968, 3972>>,
     <<3974, 3975>>, <<3981, 3991>>, <<3993, 4028>>, <<4038, 4038>>, <<4141, 4144>>,
     <<4146, 4151>>, <<4153, 4154>>, <<4157, 4158>>, <<4184, 4185>>, <<4190, 4192>>,
     <<4209, 4212>>, <<4226, 4226>>, <<4229, 4230>>, <<4237, 4237>>, <<4253, 4253>>,
     <<4348, 4348>>, <<4957, 4959>>, <<5906, 5908>>, <<5938, 5939>>, <<5970, 5971>>,
     <<6002, 6003>>, <<6068, 6069>>, <<6071, 6077>>, <<6086, 6086>>, <<6089, 6099>>,
     <<6103, 6103>>, <<6109, 6109>>, <<6155, 6159>>, <<6211, 6211>>, <<6277, 6278>>,
     <<6313, 6313>>, <<6432, 6434>>, <<6439, 6440>>, <<6450, 6450>>, <<6457, 6459>>,
     <<6679, 6680>>, <<6683, 6683>>, <<6742, 6742>>, <<6744, 6750>>, <<6752, 6752>>,
     <<6754, 6754>>, <<6757, 6764>>, <<6771, 6780>>, <<6783, 6783>>, <<6823, 6823>>,
     <<6832, 6862>>, <<6912, 6915>>, <<6964, 6964>>, <<6966, 6970>>, <<6972, 6972>>,
     <<6978, 6978>>, <<7019, 7027>>, <<7040, 7041>>, <<7074, 7077>>, <<7080, 7081>>,
     <<7083, 7085>>, <<7142, 7142>>, <<7144, 7145>>, <<7149, 7149>>, <<7151, 7153>>,
     <<7212, 7219>>, <<7222, 7223>>, <<7288, 7293>>, <<7376, 7378>>, <<7380, 7392>>,
     <<7394, 7400>>, <<7405, 7405>>, <<7412, 7412>>, <<7416, 7417>>, <<7468, 7530>>,
     <<7544, 7544>>, <<7579, 7679>>, <<8125, 8125>>, <<8127, 8129>>, <<8141, 8143>>,
     <<8157, 8159>>, <<8173, 8175>>, <<8189, 8190>>, <<8203, 8207>>, <<8216, 8217>>,
     <<8228, 8228>>, <<8231, 8231>>, <<8234, 8238>>, <<8288, 8292>>, <<8294, 8303>>,
     <<8305, 8305>>, <<8319, 8319>>, <<8336, 8348>>, <<8400, 8432>>, <<11388, 11389>>,
     <<11503, 11505>>, <<11631, 11631>>, <<11647, 11647>>, <<11744, 11775>>, <<11823, 11823>>,
     <<12293, 12293>>, <<12330, 12333>>, <<12337, 12341>>, <<12347, 12347>>, <<12441, 12446>>,
     <<12540, 12542>>, <<40981, 40981>>, <<42232, 42237>>, <<42508, 42508>>, <<42607, 42610>>,
     <<42612, 42621>>, <<42623, 42623>>, <<42652, 42655>>, <<42736, 42737>>, <<42752, 42785>>,
     <<42864, 42864>>, <<42888, 42890>>, <<42994, 42996>>, <<43000, 43001>>, <<43010, 43010>>,
     <<43014, 43014>>, <<43019, 43019>>, <<43045, 43046>>, <<43052, 43052>>, <<43204, 43205>>,
     <<43232, 43249>>, <<43263, 43263>>, <<43302, 43309>>, <<43335, 43345>>, <<43392, 43394>>,
     <<43443, 43443>>, <<43446, 43449>>, <<43452, 43453>>, <<43471, 43471>>, <<43493, 43494>>,
     <<43561, 43566>>, <<43569, 43570>>, <<43573, 43574>>, <<43587, 43587>>, <<43596, 43596>>,
     <<43632, 43632>>, <<43644, 43644>>, <<43696, 43696>>, <<43698, 43700>>, <<43703, 43704>>,
     <<43710, 43711>>, <<43713, 43713>>, <<43741, 43741>>, <<43756, 43757>>, <<43763, 43764>>,
     <<43766, 43766>>, <<43867, 43871>>, <<43881, 43883>>, <<44005, 44005>>, <<44008, 44008>>,
     <<44013, 44013>>, <<64286, 64286>>, <<64434, 64450>>, <<65024, 65039>>, <<65043, 65043>>,
     <<65056, 65071>>, <<65106, 65106>>, <<65109, 65109>>, <<65279, 65279>>, <<65287, 65287>>,
     <<65294, 65294>>, <<65306, 65306>>, <<65342, 65342>>, <<65344, 65344>>, <<65392, 65392>>,
     <<65438, 65439>>, <<65507, 65507>>, <<65529, 65531>>, <<66045, 66045>>, <<66272, 66272>>,
     <<66422, 66426>>, <<67456, 67461>>, <<67463, 67504>>, <<67506, 67514>>, <<68097, 68099>>,
     <<68101, 68102>>, <<68108, 68111>>, <<68152, 68154>>, <<68159, 68159>>, <<68325, 68326>>,
     <<68900, 68903>>, <<69291, 69292>>, <<69446, 69456>>, <<69506, 69509>>, <<69633, 69633>>,
     <<69688, 69702>>, <<69744, 69744>>, <<69747, 69748>>, <<69759, 69761>>, <<69811, 69814>>,
     <<69817, 69818>>, <<69821, 69821>>, <<69826, 69826>>, <<69837, 69837>>, <<69888, 69890>>,
     <<69927, 69931>>, <<69933, 69940>>, <<70003, 70003>>, <<70016, 70017>>, <<70070, 70078>>,
     <<70089, 70092>>, <<70095, 70095>>, <<70191, 70193>>, <<70196, 70196>>, <<70198, 70199>>,
     <<70206, 70206>>, <<70367, 70367>>, <<70371, 70378>>, <<70400, 70401>>, <<70459, 70460>>,
     <<70464, 70464>>, <<70502, 70508>>, <<70512, 70516>>, <<70712, 70719>>, <<70722, 70724>>,
     <<70726, 70726>>, <<70750, 70750>>, <<70835, 70840>>, <<70842, 70842>>, <<70847, 70848>>,
     <<70850, 70851>>, <<71090, 71093>>, <<71100, 71101>>, <<71103, 71104>>, <<71132, 71133>>,
     <<71219, 71226>>, <<71229, 71229>>, <<71231, 71232>>, <<71339, 71339>>, <<71341, 71341>>,
     <<71344, 71349>>, <<71351, 71351>>, <<71453, 71455>>, <<71458, 71461>>, <<71463, 71467>>,
     <<71727, 71735>>, <<71737, 71738>>, <<71995, 71996>>, <<71998, 71998>>, <<72003, 72003>>,
     <<72148, 72151>>, <<72154, 72155>>, <<72160, 72160>>, <<72193, 72202>>, <<72243, 72248>>,
     <<72251, 72254>>, <<72263, 72263>>, <<72273, 72278>>, <<72281, 72283>>, <<72330, 72342>>,
     <<72344, 72345>>, <<72752, 72758>>, <<72760, 72765>>, <<72767, 72767>>, <<72850, 72871>>,
     <<72874, 72880>>, <<72882, 72883>>, <<72885, 72886>>, <<73009, 73014>>, <<73018, 73018>>,
     <<73020, 73021>>, <<73023, 73029>>, <<73031, 73031>>, <<73104, 73105>>, <<73109, 73109>>,
     <<73111, 73111>>, <<73459, 73460>>, <<78896, 78904>>, <<92912, 92916>>, <<92976, 92982>>,
     <<92992, 92995>>, <<94031, 94031>>, <<94095, 94111>>, <<94176, 94177>>, <<94179, 94180>>,
     <<110576, 110579>>, <<110581, 110587>>, <<110589, 110590>>, <<113821, 113822>>, <<113824, 113827>>,
     <<118528, 118573>>, <<118576, 118598>>, <<119143, 119145>>, <<119155, 119170>>, <<119173, 119179>>,
     <<119210, 119213>>, <<119362, 119364>>, <<121344, 121398>>, <<121403, 121452>>, <<121461, 121461>>,
     <<121476, 121476>>, <<121499, 121503>>, <<121505, 121519>>, <<122880, 122886>>, <<122888, 122904>>,
     <<122907, 122913>>, <<122915, 122916>>, <<122918, 122922>>, <<123184, 123197>>, <<123566, 123566>>,
     <<123628, 123631>>, <<125136, 125142>>, <<125252, 125259>>, <<127995, 127999>>, <<917505, 917505>>,
     <<917536, 917631>>, <<917760, 917999>>}

CaseIgnorable == UNION {r[1]..r[2] : r \in CaseIgnorableRanges}

IsCaseIgnorable(c) == c \in CaseIgnorable

\* The ranges <<first, last>> of the cased characters.
CasedRanges ==
    {<<65, 90>>, <<97, 122>>, <<170, 170>>, <<181, 181>>, <<186, 186>>,
     <<192, 214>>, <<216, 246>>, <<248, 442>>, <<444, 447>>, <<452, 659>>,
     <<661, 696>>, <<704, 705>>, <<736, 740>>, <<837, 837>>, <<880, 883>>,
     <<886, 887>>, <<890, 893>>, <<895, 895>>, <<902, 902>>, <<904, 906>>,
     <<908, 908>>, <<910, 929>>, <<931, 1013>>, <<1015, 1153>>, <<1162, 1327>>,
     <<1329, 1366>>, <<1376, 1416>>, <<4256, 4293>>, <<4295, 4295>>, <<4301, 4301>>,
     <<4304, 4346>>, <<4349, 4351>>, <<5024, 5109>>, <<5112, 5117>>, <<7296, 7304>>,
     <<7312, 7354>>, <<7357, 7359>>, <<7424, 7615>>, <<7680, 7957>>, <<7960, 7965>>,
     <<7968, 8005>>, <<8008, 8013>>, <<8016, 8023>>, <<8025, 8025>>, <<8027, 8027>>,
     <<8029, 8029>>, <<8031, 8061>>, <<8064, 8116>>, <<8118, 8124>>, <<8126, 8126>>,
     <<8130, 8132>>, <<8134, 8140>>, <<8144, 8147>>, <<8150, 8155>>, <<8160, 8172>>,
     <<8178, 8180>>, <<8182, 8188>>, <<8305, 8305>>, <<8319, 8319>>, <<8336, 8348>>,
     <<8450, 8450>>, <<8455, 8455>>, <<8458, 8467>>, <<8469, 8469>>, <<8473, 8477>>,
     <<8484, 8484>>, <<8486, 8486>>, <<8488, 8488>>, <<8490, 8493>>, <<8495, 8500>>,
     <<8505, 8505>>, <<8508, 8511>>, <<8517, 8521>>, <<8526, 8526>>, <<8544, 8575>>,
     <<8579, 8580>>, <<9398, 9449>>, <<11264, 11492>>, <<11499, 11502>>, <<11506, 11507>>,
     <<11520, 11557>>, <<11559, 11559>>, <<11565, 11565>>, <<42560, 42605>>, <<42624, 42653>>,
     <<42786, 42887>>, <<42891, 42894>>, <<42896, 42954>>, <<42960, 42961>>, <<42963, 42963>>,
     <<42965, 42969>>, <<42997, 42998>>, <<43000, 43002>>, <<43824, 43866>>, <<43868, 43880>>,
     <<43888, 43967>>, <<64256, 64262>>, <<64275, 64279>>, <<65313, 65338>>, <<65345, 65370>>,
     <<66560, 66639>>, <<66736, 66771>>, <<66776, 66811>>, <<66928, 66938>>, <<66940, 66954>>,
     <<66956, 66962>>, <<66964, 66965>>, <<66967, 66977>>, <<66979, 66993>>, <<66995, 67001>>,
     <<67003, 67004>>, <<67456, 67456>>, <<67459, 67461>>, <<67463, 67504>>, <<67506, 67514>>,
     <<68736, 68786>>, <<68800, 68850>>, <<71840, 71903>>, <<93760, 93823>>, <<119808, 119892>>,
     <<119894, 119964>>, <<119966, 119967>>, <<119970, 119970>>, <<119973, 119974>>, <<119977, 119980>>,
     <<119982, 119993>>, <<119995, 119995>>, <<119997, 120003>>, <<120005, 120069>>, <<120071, 120074>>,
     <<120077, 120084>>, <<120086, 120092>>, <<120094, 120121>>, <<120123, 120126>>, <<120128, 120132>>,
     <<120134, 120134>>, <<120138, 120144>>, <<120146, 120485>>, <<120488, 120512>>, <<120514, 120538>>,
     <<120540, 120570>>, <<120572, 120596>>, <<120598, 120628>>, <<120630, 120654>>, <<120656, 120686>>,
     <<120688, 120712>>, <<120714, 120744>>, <<120746, 120770>>, <<120772, 120779>>, <<122624, 122633>>,
     <<122635, 122654>>, <<125184, 125251>>, <<127280, 127305>>, <<127312, 127337>>, <<127344, 127369>>}

Cased == UNION {r[1]..r[2] : r \in CasedRanges}

IsCased(c) == c \in Cased

\* The least member of a non-empty set of indices.
Min(S) == CHOOSE i \in S : \A j \in S : i <= j

\* The greatest member of a non-empty set of indices.
Max(S) == CHOOSE i \in S : \A j \in S : i >= j

\* U+03A3 capital sigma, U+03C3 small sigma, U+03C2 final small sigma.
CapitalSigma == 931
SmallSigma == 963
FinalSmallSigma == 962

\* Whether the capital sigma at s[i] ends a word: the nearest character
\* before it that is not case-ignorable is cased, and the nearest one after
\* it, if any, is not.
FinalSigma(s, i) ==
    LET before == {j \in 1..(i - 1) : ~IsCaseIgnorable(s[j])}
        after == {j \in (i + 1)..Len(s) : ~IsCaseIgnorable(s[j])}
    IN  /\ before # {}
        /\ IsCased(s[Max(before)])
        /\ after = {} \/ ~IsCased(s[Min(after)])

\* The lower case of s[i] inside s.
LowerAt(s, i) ==
    IF s[i] = CapitalSigma
    THEN (IF FinalSigma(s, i) THEN <<FinalSmallSigma>> ELSE <<SmallSigma>>)
    ELSE LowerChar(s[i])

\* The lower case of s[lo..hi] inside s (the range is halved to keep the
\* evaluation shallow).
RECURSIVE LowerRange(_, _, _)
LowerRange(s, lo, hi) ==
    IF lo > hi THEN <<>>
    ELSE IF lo = hi THEN LowerAt(s, lo)
    ELSE LowerRange(s, lo, (lo + hi) \div 2)
            \o LowerRange(s, (lo + hi) \div 2 + 1, hi)

\* str.capitalize(): the first character title-cased, all others
\* lower-cased where they stand.
Capitalize(s) ==
    IF s = <<>> THEN <<>> ELSE TitleChar(s[1]) \o LowerRange(s, 2, Len(s))

\* str.strip(): what lies between the first and the last character that is
\* no whitespace.
Strip(s) ==
    LET keep == {i \in 1..Len(s) : ~IsSpace(s[i])}
    IN  IF keep = {} THEN <<>> ELSE SubSeq(s, Min(keep), Max(keep))

\* s[i-1:j-1] in Python terms.
Slice(s, i, j) == IF j <= i THEN <<>> ELSE SubSeq(s, i, j - 1)

\* str.split(sep): the pieces between the non-overlapping occurrences of sep,
\* found left to right from index i on.
RECURSIVE SplitFrom(_, _, _)
SplitFrom(s, sep, i) ==
    LET hits == {j \in i..Len(s) : StartsAt(s, j, sep)}
    IN  IF hits = {} THEN <<From(s, i)>>
        ELSE <<Slice(s, i, Min(hits))>> \o SplitFrom(s, sep, Min(hits) + Len(sep))

Split(s, sep) == SplitFrom(s, sep, 1)

\* sep.join(seq)
RECURSIVE Join(_, _)
Join(seq, sep) ==
    IF seq = <<>> THEN <<>>
    ELSE IF Len(seq) = 1 THEN seq[1]
         ELSE seq[1] \o sep \o Join(Tail(seq), sep)

\* [x for x in seq if x]
RECURSIVE NonEmpty(_)
NonEmpty(seq) ==
    IF seq = <<>> THEN <<>>
    ELSE IF seq[1] # <<>> THEN <<seq[1]>> \o NonEmpty(Tail(seq))
         ELSE NonEmpty(Tail(seq))

\* [x.strip() for x in seq if x.strip()]
RECURSIVE StripNonEmpty(_)
StripNonEmpty(seq) ==
    IF seq = <<>> THEN <<>>
    ELSE IF Strip(seq[1]) # <<>> THEN <<Strip(seq[1])>> \o StripNonEmpty(Tail(seq))
         ELSE StripNonEmpty(Tail(seq))

\* Python's None, and an optional value that is present.
None == [some |-> FALSE, value |-> <<>>]
Some(v) == [some |-> TRUE, value |-> v]

\* str(x) as an f-string formats an optional str.
Str(o) == IF o.some THEN o.value ELSE Text("None")

\* bool(x) of an optional str.
Truthy(o) == o.some /\ o.value # <<>>

\* ------------------------------------------------------------------------
\* The two regular expressions of extract_pr_info
\* ------------------------------------------------------------------------

\* The characters and words the patterns spell out.
Hash == Ord("#")
LeftParen == Ord("(")
RightParen == Ord(")")
LineFeed == Ord("\n")
MergePullRequest == Text("Merge pull request")
FromWord == Text("from")
PR == Text("PR")

\* The first index at or after i that holds no digit (greedy \d*).
DigitsEnd(s, i) == Min({j \in i..(Len(s) + 1) : ~IsDigit(At(s, j))})

\* The first index at or after i that holds no whitespace (greedy \s*).
SpacesEnd(s, i) == Min({j \in i..(Len(s) + 1) : ~IsSpace(At(s, j))})

\* The first index at or after i that "." does not match (greedy .*).
DotStarEnd(s, i) == Min({j \in i..(Len(s) + 1) : j > Len(s) \/ s[j] = LineFeed})

\* Each Match operator gives the index after a match that starts at i, or 0.

\* \(?#\d+\)?
MatchHashRef(s, i) ==
    LET j == IF At(s, i) = LeftParen THEN i + 1 ELSE i
        k == DigitsEnd(s, j + 1)
    IN  IF At(s, j) = Hash /\ IsDigit(At(s, j + 1))
        THEN (IF At(s, k) = RightParen THEN k + 1 ELSE k)
        ELSE 0

\* Merge pull request.*
MatchMerge(s, i) ==
    IF StartsAt(s, i, MergePullRequest)
    THEN DotStarEnd(s, i + Len(MergePullRequest))
    ELSE 0

\* from.*
MatchFrom(s, i) ==
    IF StartsAt(s, i, FromWord) THEN DotStarEnd(s, i + Len(FromWord)) ELSE 0

\* PR\s*\d+
MatchPR(s, i) ==
    LET j == SpacesEnd(s, i + Len(PR))
    IN  IF StartsAt(s, i, PR) /\ IsDigit(At(s, j)) THEN DigitsEnd(s, j) ELSE 0

\* \(?#\d+\)?|Merge pull request.*|from.*|PR\s*\d+ : the first alternative
\* that matches at i wins.
MatchClean(s, i) ==
    IF MatchHashRef(s, i) > 0 THEN MatchHashRef(s, i)
    ELSE IF MatchMerge(s, i) > 0 THEN MatchMerge(s, i)
    ELSE IF MatchFrom(s, i) > 0 THEN MatchFrom(s, i)
    ELSE MatchPR(s, i)

\* re.sub(pattern, "", s) from index i on: the leftmost match is dropped and
\* the scan goes on behind it; every other character is kept.
RECURSIVE SubClean(_, _)
SubClean(s, i) ==
    LET hits == {j \in i..Len(s) : MatchClean(s, j) > 0}
    IN  IF hits = {} THEN From(s, i)
        ELSE Slice(s, i, Min(hits)) \o SubClean(s, MatchClean(s, Min(hits)))

\* (?:#|PR\s*)(\d+) matched at i: the index where group 1 starts, or 0.
\* "#" is tried first; "PR\s*" backtracks over whitespace only, which no
\* digit can follow earlier, so the greedy choice decides.
PrGroupStart(s, i) ==
    IF At(s, i) = Hash /\ IsDigit(At(s, i + 1)) THEN i + 1
    ELSE IF StartsAt(s, i, PR) /\ IsDigit(At(s, SpacesEnd(s, i + Len(PR))))
         THEN SpacesEnd(s, i + Len(PR))
         ELSE 0

\* re.search: the leftmost match; group(1) of it, or None.
SearchPr(s) ==
    LET hits == {j \in 1..Len(s) : PrGroupStart(s, j) > 0}
        g == PrGroupStart(s, Min(hits))
    IN  IF hits = {} THEN None ELSE Some(Slice(s, g, DigitsEnd(s, g)))

\* extract_pr_info with the title capitalized before it is stripped.
extract_pr_info_strip_last(m) ==
    [title |-> Strip(Capitalize(SubClean(m, 1))),
     pr_number |-> SearchPr(m)]

\* extract_pr_info(message) -> (clean, pr_number)
extract_pr_info(m) ==
    [title |-> Capitalize(Strip(SubClean(m, 1))),
     pr_number |-> SearchPr(m)]


\* ------------------------------------------------------------------------
\* Bounds and the inputs the environment can supply
\* ------------------------------------------------------------------------

\* Longest tag list the repository holds.
MaxTags == 3
\* Most lines a log query prints.
MaxLines == 2
\* Longest commit subject enumerated exhaustively for extract_pr_info.
MaxMsgLen == 4

\* The tags a repository's history may hold, newest first.
TagHistory == <<Text("v2.0"), Text("v1.1"), Text("v1.0")>>

\* --tag <name>: a name the repository may hold, or one it never holds.
RequestedTags == {Text("v1.1"), Text("v3.0")}

\* The members of a set of indices in increasing order.
Ascending(S) ==
    CHOOSE f \in [1..Cardinality(S) -> S] :
        \A i, j \in 1..Cardinality(S) : i < j => f[i] < f[j]

\* Newest-first tag lists: any of the history's tags, each at most once, in
\* the order "git tag --sort=-creatordate" gives them.
TagLists ==
    {[i \in 1..Cardinality(S) |-> TagHistory[Ascending(S)[i]]] :
        S \in {T \in SUBSET (1..Len(TagHistory)) : Cardinality(T) <= MaxTags}}

\* Lines a log query can print: "%h||%s||%an" records, among them a subject
\* that holds the delimiter, a short line and a blank line.
LogLines ==
    {Text("abc123||Fix retry bug (#42)||Jane Doe"),
     Text("def456||Merge pull request #10 from foo/bar||Bot"),
     Text("ghi789||update docs||Sam"),
     Text("aaa111||Bump PR 77 and #5 deps||Eve"),
     Text("bbb222||Support a||b syntax||Al"),
     Text("ccc333||truncated"),
     Text("  ")}

\* The characters of the subjects that are enumerated exhaustively.
MsgAlphabet ==
    {Ord("#"), Ord("("), Ord(")"), Ord("1"), Ord(" "), Ord("P"), Ord("R"), Ord("a"),
     Ord("|")}

RECURSIVE StringsUpTo(_)
StringsUpTo(n) ==
    IF n = 0 THEN {<<>>}
    ELSE StringsUpTo(n - 1)
            \cup {Append(s, c) : s \in StringsUpTo(n - 1), c \in MsgAlphabet}

\* Longer subjects of the kinds commits carry.
AsciiSubjects ==
    {Text("Fix retry bug (#42)"),
     Text("Merge pull request #10 from foo/bar"),
     Text("update docs"),
     Text("Bump PR 77 and #5 deps"),
     Text("Revert FROM clause"),
     Text("MERGE pull request cleanup"),
     Text("Close ##1)2 typo"),
     Text("  pad (#7) "),
     \* subjects that hold the field separator
     Text("a||b"),
     Text("Support a||b syntax"),
     Text("||")}

\* Subjects with characters beyond printable ASCII.
UnicodeSubjects ==
    {\* U+000B vertical tab after PR, U+001D group separator at the end
     Text("PR") \o <<11>> \o Text("12 x") \o <<29>>,
     \* U+001E record separator and U+001C file separator around the text
     <<30>> \o Text("fix (#3)") \o <<28>>,
     \* U+00E9 e acute, U+00C0 A grave, U+00A0 no-break space
     <<233>> \o Text("COLE ") \o <<192>> \o Text(" (#8)") \o <<160>>,
     \* U+0085 next line, U+00DF sharp s, U+00A0 no-break space
     <<133, 223>> \o Text("ETA PR") \o <<160>> \o Text("9"),
     \* U+00B5 micro sign, U+00FF y diaeresis
     <<181, 32, 255>>,
     <<255>> \o Text("es"),
     \* U+1680 ogham space mark after PR
     Text("x PR") \o <<5760>> \o Text("7"),
     \* U+06F1 U+06F2 extended Arabic-Indic digits, U+2003 em space
     Text("fix #") \o <<1777, 1778>> \o Text(" now") \o <<8195>>,
     \* U+0149 n preceded by apostrophe
     <<329>> \o Text("AME"),
     \* Greek capitals omicron delta omicron sigma, alpha sigma
     <<927, 916, 927, 931, 32, 913, 931>> \o Text("."),
     \* U+01C6 dz with caron, U+0130 capital I with dot above
     <<454>> \o Text("ON") \o <<304>>}

SampleSubjects == AsciiSubjects \cup UnicodeSubjects

Messages == StringsUpTo(MaxMsgLen) \cup SampleSubjects

LogTexts ==
    {Join(l, Text("\n")) : l \in UNION {[1..n -> LogLines] : n \in 0..MaxLines}}

\* What a child process leaves behind: its exit status and the text it wrote
\* to stdout (the bytes that decode as UTF-8; errors="ignore" drops the rest).
Outcome(rc, out) == [rc |-> rc, out |-> out]

\* A tag listing may end its lines with "\r\n".
TagListOutcomes ==
    {Outcome(0, Join(l, Text("\n")) \o Text("\n")) : l \in TagLists}
        \cup {Outcome(0, Text("v1.1\r\nv1.0\r\n")), Outcome(128, <<>>)}

ProbeOutcomes == {Outcome(0, Text("4f2a9c1e\n")), Outcome(128, <<>>)}

\* A log whose records end with "\r\n", with a lone "\r" inside a subject, a
\* line of control whitespace (U+000B, U+001C) and control whitespace
\* (U+001F) after an author.
CarriageReturnLog ==
    Text("abc123||Fix retry\rbug (#42)||Jane Doe\r\n") \o <<11, 28>> \o Text("\r\n")
        \o Text("ghi789||update docs||Sam") \o <<31>> \o Text("\r\n")

\* A log with letters and whitespace beyond ASCII: U+1680 after PR and
\* U+3000 after the author; U+00E9, U+00A0 after PR, U+00C9, and U+00A0
\* U+0085 at the end.
UnicodeLog ==
    Text("mno345||x PR") \o <<5760>> \o Text("7||Ann") \o <<12288>> \o Text("\n")
        \o Text("jkl012||") \o <<233>> \o Text("vite PR") \o <<160>> \o Text("4||JOS")
        \o <<201, 160, 133>> \o Text("\n")

LogOutcomes ==
    {Outcome(0, t) : t \in LogTexts}
        \cup {Outcome(0, CarriageReturnLog),
              Outcome(0, UnicodeLog),
              Outcome(128, <<>>),
              Outcome(128, Text("abc123||Fix retry bug (#42)||Jane Doe\n"))}

\* ------------------------------------------------------------------------
\* The functions of generate_changelog.py
\* ------------------------------------------------------------------------

CarriageReturn == Ord("\r")

\* check_output(..., text=True): the child's stdout is read in universal
\* newlines mode, so every "\r\n" and every lone "\r" arrives as "\n".
RECURSIVE UniversalNewlines(_)
UniversalNewlines(s) ==
    LET hits == {j \in 1..Len(s) : s[j] = CarriageReturn}
        j == Min(hits)
    IN  IF hits = {} THEN s
        ELSE Slice(s, 1, j) \o Text("\n")
                \o UniversalNewlines(From(s, IF At(s, j + 1) = LineFeed THEN j + 2 ELSE j + 1))

\* run_cmd with the failure's captured stdout handed back.
run_cmd_keep_output(o) == Strip(UniversalNewlines(o.out))

\* run_cmd(cmd): stdout decoded with its newlines translated, then stripped;
\* "" when the command exits non-zero (CalledProcessError is swallowed).
run_cmd(o) == IF o.rc # 0 THEN <<>> ELSE Strip(UniversalNewlines(o.out))

\* print(x) writes x and a newline to standard output.
print(x) == x \o Text("\n")

LogFormat == Text(" --pretty=format:\"%h||%s||%an\"")

\* tags.index(tag), 1-based; 0 when tag is not in tags.
IndexOf(ts, t) ==
    IF \E i \in DOMAIN ts : ts[i] = t
    THEN Min({i \in DOMAIN ts : ts[i] = t})
    ELSE 0

\* latest_tag = tags[0] if tags else None
latest_tag(ts) == IF ts # <<>> THEN Some(ts[1]) ELSE None

\* The predecessor lookup with the target's own index used for it.
previous_tag_same_index(ts, t) ==
    IF IndexOf(ts, t) > 0
    THEN Some(ts[IndexOf(ts, t)])
    ELSE (IF Len(ts) > 1 THEN Some(ts[2]) ELSE None)

\* previous: the entry after tag in tags, or tags[1] when tag is not listed.
previous_tag(ts, t) ==
    IF IndexOf(ts, t) > 0
    THEN (IF IndexOf(ts, t) + 1 <= Len(ts)
          THEN Some(ts[IndexOf(ts, t) + 1])
          ELSE None)
    ELSE (IF Len(ts) > 1 THEN Some(ts[2]) ELSE None)

\* The tag-exists command with the range built whether or not a predecessor
\* was found.
exists_cmd_unguarded(prev, t) ==
    Text("git log ") \o Str(prev) \o Text("..") \o t \o LogFormat

\* cmd when the tag exists.
exists_cmd(prev, t) ==
    IF Truthy(prev)
    THEN Text("git log ") \o Str(prev) \o Text("..") \o t \o LogFormat
    ELSE Text("git log ") \o t \o LogFormat \o Text(" -n 50")

\* The missing-tag command measured from the oldest tag instead of the latest.
missing_cmd_oldest(ts) ==
    IF ~Truthy(latest_tag(ts))
    THEN Text("git log main") \o LogFormat \o Text(" -n 50")
    ELSE Text("git log ") \o ts[Len(ts)] \o Text("..main") \o LogFormat

\* cmd when the tag does not exist.
missing_cmd(ts) ==
    IF ~Truthy(latest_tag(ts))
    THEN Text("git log main") \o LogFormat \o Text(" -n 50")
    ELSE Text("git log ") \o Str(latest_tag(ts)) \o Text("..main") \o LogFormat

\* The [WARN] line of the missing-tag branch.
warning(ts, t) ==
    Text("[WARN] Tag '") \o t
        \o Text("' not found, generating changelog between latest tag '")
        \o Str(latest_tag(ts)) \o Text("' and 'main'")

\* The [DEBUG] line printed before the log query runs.
debug(c) == Text("[DEBUG] Running: ") \o c

PrUrl == Text("https://github.com/microsoft/durabletask-dotnet/pull/")

\* The bullet of one entry.
format_entry(title, author, pr_number) ==
    Text("- ") \o title \o Text(" by ") \o author \o Text(" (")
        \o (IF Truthy(pr_number)
            THEN Text("[#") \o Str(pr_number) \o Text("](") \o PrUrl
                    \o Str(pr_number) \o Text(")")
            ELSE <<>>)
        \o Text(")")

NoCommits == Text("*(No commits found in range)*")

\* The block of an empty fetch.
empty_block(t) == Text("## ") \o t \o Text("\n") \o NoCommits

\* The block of a non-empty fetch.
block(t, es) == Text("## ") \o t \o Text("\n") \o Join(es, Text("\n"))

\* ------------------------------------------------------------------------
\* State
\* ------------------------------------------------------------------------

VARIABLES
    pc,         \* where the run stands
    tag,        \* args.tag
    stdout,     \* what has been written to standard output, one write each
    shell,      \* the commands handed to run_cmd, in order
    tags,       \* get_git_log: the tag list
    exists,     \* get_git_log: tag_exists(tag)
    previous,   \* get_git_log: the predecessor tag, or None
    cmd,        \* get_git_log: the log query
    outcomes,   \* what each command's process left behind, in order
    lines,      \* generate_changelog: the fetched lines
    idx,        \* generate_changelog: the line the loop stands at
    entries,    \* generate_changelog: the bullets so far
    result,     \* generate_changelog's return value, or None
    message,    \* extract_pr_info: the subject under study
    info,       \* extract_pr_info(message)
    info2       \* extract_pr_info(info.title)

vars == <<pc, tag, stdout, shell, tags, exists, previous, cmd, outcomes,
          lines, idx, entries, result, message, info, info2>>

cleanVars == <<message, info, info2>>

NoInfo == [title |-> <<>>, pr_number |-> None]

Init ==
    /\ pc = "main"
    /\ tag \in RequestedTags
    /\ stdout = <<>>
    /\ shell = <<>>
    /\ tags = <<>>
    /\ exists = FALSE
    /\ previous = None
    /\ cmd = <<>>
    /\ outcomes = <<>>
    /\ lines = <<>>
    /\ idx = 0
    /\ entries = <<>>
    /\ result = None
    /\ message = <<>>
    /\ info = NoInfo
    /\ info2 = NoInfo

\* ------------------------------------------------------------------------
\* The run
\* ------------------------------------------------------------------------

\* __main__: the title is printed, then generate_changelog is entered.
Main_PrintTitle ==
    /\ pc = "main"
    /\ stdout' = Append(stdout, print(Text("# Changelog\n")))
    /\ pc' = "list_tags"
    /\ UNCHANGED <<tag, shell, tags, exists, previous, cmd, outcomes, lines,
                   idx, entries, result>>
    /\ UNCHANGED cleanVars

\* get_git_log: the tag listing.
GetGitLog_ListTags ==
    /\ pc = "list_tags"
    /\ \E o \in TagListOutcomes :
         /\ outcomes' = Append(outcomes, o)
         /\ tags' = NonEmpty(Split(run_cmd(o), Text("\n")))
    /\ shell' = Append(shell, Text("git tag --sort=-creatordate"))
    /\ pc' = "tag_exists"
    /\ UNCHANGED <<tag, stdout, exists, previous, cmd, lines, idx, entries,
                   result>>
    /\ UNCHANGED cleanVars

\* tag_exists(tag): the existence probe.
GetGitLog_TagExists ==
    /\ pc = "tag_exists"
    /\ \E o \in ProbeOutcomes :
         /\ outcomes' = Append(outcomes, o)
         /\ exists' = (run_cmd(o) # <<>>)
    /\ shell' = Append(shell, Text("git rev-parse --verify refs/tags/") \o tag)
    /\ pc' = "build_cmd"
    /\ UNCHANGED <<tag, stdout, tags, previous, cmd, lines, idx, entries,
                   result>>
    /\ UNCHANGED cleanVars

\* get_git_log: the range is chosen, the warning and the debug line printed.
GetGitLog_BuildCmd ==
    /\ pc = "build_cmd"
    /\ previous' = IF exists THEN previous_tag(tags, tag) ELSE None
    /\ cmd' = IF exists THEN exists_cmd(previous', tag) ELSE missing_cmd(tags)
    /\ stdout' = IF exists
                 THEN Append(stdout, print(debug(cmd')))
                 ELSE stdout \o <<print(warning(tags, tag)), print(debug(cmd'))>>
    /\ pc' = "run_log"
    /\ UNCHANGED <<tag, shell, tags, exists, outcomes, lines, idx, entries,
                   result>>
    /\ UNCHANGED cleanVars

\* get_git_log: the log query runs; its output is split into stripped,
\* non-blank lines.
GetGitLog_RunLog ==
    /\ pc = "run_log"
    /\ \E o \in LogOutcomes :
         /\ outcomes' = Append(outcomes, o)
         /\ lines' = StripNonEmpty(Split(run_cmd(o), Text("\n")))
    /\ shell' = Append(shell, cmd)
    /\ pc' = "generate"
    /\ UNCHANGED <<tag, stdout, tags, exists, previous, cmd, idx, entries,
                   result>>
    /\ UNCHANGED cleanVars

\* generate_changelog: no lines, the no-commits block is returned.
GenerateChangelog_NoLines ==
    /\ pc = "generate"
    /\ lines = <<>>
    /\ result' = Some(empty_block(tag))
    /\ pc' = "print_result"
    /\ UNCHANGED <<tag, stdout, shell, tags, exists, previous, cmd, outcomes,
                   lines, idx, entries>>
    /\ UNCHANGED cleanVars

\* generate_changelog: the loop over the lines is entered.
GenerateChangelog_Enter ==
    /\ pc = "generate"
    /\ lines # <<>>
    /\ entries' = <<>>
    /\ idx' = 1
    /\ pc' = "loop"
    /\ UNCHANGED <<tag, stdout, shell, tags, exists, previous, cmd, outcomes,
                   lines, result>>
    /\ UNCHANGED cleanVars

\* One iteration with the PR number taken from the cleaned title.
loop_step_pr_of_title(line, es) ==
    LET parts == Split(line, Text("||"))
        e == extract_pr_info(parts[2])
    IN  IF Len(parts) < 3 THEN [raised |-> FALSE, entries |-> es]
        ELSE IF Len(parts) > 3 THEN [raised |-> TRUE, entries |-> es]
        ELSE IF e.title = <<>> THEN [raised |-> FALSE, entries |-> es]
        ELSE [raised |-> FALSE,
              entries |-> Append(es, format_entry(e.title, parts[3],
                                        extract_pr_info(e.title).pr_number))]

\* One iteration of the loop body: a line of fewer than three fields is
\* skipped, the three-name unpacking raises ValueError on more than three,
\* an empty title is skipped, anything else appends its bullet.
loop_step(line, es) ==
    LET parts == Split(line, Text("||"))
        e == extract_pr_info(parts[2])
    IN  IF Len(parts) < 3 THEN [raised |-> FALSE, entries |-> es]
        ELSE IF Len(parts) > 3 THEN [raised |-> TRUE, entries |-> es]
        ELSE IF e.title = <<>> THEN [raised |-> FALSE, entries |-> es]
        ELSE [raised |-> FALSE,
              entries |-> Append(es, format_entry(e.title, parts[3], e.pr_number))]

\* generate_changelog: the loop handles lines[idx]; an uncaught ValueError
\* ends the run.
GenerateChangelog_Step ==
    /\ pc = "loop"
    /\ idx <= Len(lines)
    /\ LET r == loop_step(lines[idx], entries)
       IN  /\ entries' = r.entries
           /\ pc' = IF r.raised THEN "crashed" ELSE "loop"
           /\ idx' = IF r.raised THEN idx ELSE idx + 1
    /\ UNCHANGED <<tag, stdout, shell, tags, exists, previous, cmd, outcomes,
                   lines, result>>
    /\ UNCHANGED cleanVars

\* generate_changelog: the loop is over, the block is returned.
GenerateChangelog_Return ==
    /\ pc = "loop"
    /\ idx > Len(lines)
    /\ result' = Some(block(tag, entries))
    /\ pc' = "print_result"
    /\ UNCHANGED <<tag, stdout, shell, tags, exists, previous, cmd, outcomes,
                   lines, idx, entries>>
    /\ UNCHANGED cleanVars

\* __main__: the returned block is printed.
Main_PrintResult ==
    /\ pc = "print_result"
    /\ stdout' = Append(stdout, print(Str(result)))
    /\ pc' = "done"
    /\ UNCHANGED <<tag, shell, tags, exists, previous, cmd, outcomes, lines,
                   idx, entries, result>>
    /\ UNCHANGED cleanVars

Next ==
    \/ Main_PrintTitle
    \/ GetGitLog_ListTags
    \/ GetGitLog_TagExists
    \/ GetGitLog_BuildCmd
    \/ GetGitLog_RunLog
    \/ GenerateChangelog_NoLines
    \/ GenerateChangelog_Enter
    \/ GenerateChangelog_Step
    \/ GenerateChangelog_Return
    \/ Main_PrintResult

Spec == Init /\ [][Next]_vars


\* ------------------------------------------------------------------------
\* extract_pr_info and the loop body on their own
\* ------------------------------------------------------------------------

InitClean ==
    /\ pc = "extract"
    /\ tag = Text("v1.1")
    /\ stdout = <<>>
    /\ shell = <<>>
    /\ tags = <<>>
    /\ exists = FALSE
    /\ previous = None
    /\ cmd = <<>>
    /\ outcomes = <<>>
    /\ lines = <<>>
    /\ idx = 0
    /\ entries = <<>>
    /\ result = None
    /\ message \in Messages
    /\ info = NoInfo
    /\ info2 = NoInfo

\* extract_pr_info(message)
Apply_extract_pr_info ==
    /\ pc = "extract"
    /\ info' = extract_pr_info(message)
    /\ pc' = "extracted"
    /\ UNCHANGED <<tag, stdout, shell, tags, exists, previous, cmd, outcomes,
                   lines, idx, entries, result, message, info2>>

\* extract_pr_info applied to the title it returned.
Apply_extract_pr_info_again ==
    /\ pc = "extracted"
    /\ info2' = extract_pr_info(info.title)
    /\ pc' = "reextracted"
    /\ UNCHANGED <<tag, stdout, shell, tags, exists, previous, cmd, outcomes,
                   lines, idx, entries, result, message, info>>

\* The loop body of generate_changelog on the record of this subject; an
\* uncaught ValueError ends the run.
Apply_loop_step ==
    /\ pc = "reextracted"
    /\ lines' = <<Text("abc123||") \o message \o Text("||Jane Doe")>>
    /\ LET r == loop_step(lines'[1], <<>>)
       IN  /\ entries' = r.entries
           /\ pc' = IF r.raised THEN "crashed" ELSE "stepped"
           /\ idx' = IF r.raised THEN 1 ELSE 2
    /\ UNCHANGED <<tag, stdout, shell, tags, exists, previous, cmd, outcomes,
                   result, message, info, info2>>

NextClean ==
    \/ Apply_extract_pr_info
    \/ Apply_extract_pr_info_again
    \/ Apply_loop_step

SpecClean == InitClean /\ [][NextClean]_vars


\* ------------------------------------------------------------------------
\* Vocabulary of the properties
\* ------------------------------------------------------------------------

Contains(s, sub) == \E i \in 1..Len(s) : StartsAt(s, i, sub)

Listed(ts, t) == \E i \in DOMAIN ts : ts[i] = t

\* get_git_log has chosen its range.
RangeChosen == pc \in {"run_log", "generate", "loop", "crashed", "print_result", "done"}

\* The log query has been handed to the shell.
LogIssued == Len(shell) = 3

\* generate_changelog has returned.
Returned == pc \in {"print_result", "done"}

\* A predecessor of the requested tag exists: the tag is listed and is not
\* the last entry, or it is not listed and the list holds two tags.
HasPredecessor ==
    IF Listed(tags, tag)
    THEN \E i \in 1..(Len(tags) - 1) : tags[i] = tag
    ELSE Len(tags) >= 2

\* The entry right after the requested tag, or the second-newest tag.
Predecessor ==
    IF Listed(tags, tag)
    THEN tags[(CHOOSE i \in 1..(Len(tags) - 1) : tags[i] = tag) + 1]
    ELSE tags[2]

PrettyFormat == Text(" --pretty=format:\"%h||%s||%an\"")

WarnLine ==
    Text("[WARN] Tag '") \o tag
        \o Text("' not found, generating changelog between latest tag '")
        \o (IF tags = <<>> THEN Text("None") ELSE tags[1]) \o Text("' and 'main'\n")

Warned == \E k \in DOMAIN stdout : StartsAt(stdout[k], 1, Text("[WARN]"))

TitleLine == Text("# Changelog\n\n")

NoCommitsBlock == Text("## ") \o tag \o Text("\n*(No commits found in range)*")

Fields(line) == Split(line, Text("||"))

\* A record that yields a bullet: three fields and a non-empty cleaned title.
Kept(line) ==
    /\ Len(Fields(line)) = 3
    /\ extract_pr_info(Fields(line)[2]).title # <<>>

\* Where the numeric tokens preceded by "#", or by "PR" and optional
\* whitespace, start in a subject.
TokenStarts(s) ==
    {d \in 1..Len(s) :
        /\ IsDigit(s[d])
        /\ \/ At(s, d - 1) = Ord("#")
           \/ \E p \in 1..(d - 2) :
                /\ StartsAt(s, p, Text("PR"))
                /\ \A q \in (p + 2)..(d - 1) : IsSpace(s[q])}

\* The first such token: the digits from its start to the first non-digit.
FirstToken(s) ==
    LET d == Min(TokenStarts(s))
    IN  Slice(s, d, Min({e \in d..(Len(s) + 1) : ~IsDigit(At(s, e))}))

\* The link of a bullet, from the raw subject.
LinkOf(subject) ==
    IF TokenStarts(subject) = {} THEN <<>>
    ELSE Text("[#") \o FirstToken(subject)
            \o Text("](https://github.com/microsoft/durabletask-dotnet/pull/")
            \o FirstToken(subject) \o Text(")")

\* The bullet of a record, from its three fields.
BulletOf(line) ==
    Text("- ") \o extract_pr_info(Fields(line)[2]).title \o Text(" by ")
        \o Fields(line)[3] \o Text(" (") \o LinkOf(Fields(line)[2]) \o Text(")")

\* A title that holds nothing the cleaning removes.
HasHashDigits(t) == \E i \in 1..Len(t) : t[i] = Ord("#") /\ IsDigit(At(t, i + 1))

HasPrDigits(t) ==
    \E i \in 1..Len(t) : \E d \in (i + 2)..Len(t) :
        /\ StartsAt(t, i, Text("PR"))
        /\ IsDigit(t[d])
        /\ \A q \in (i + 2)..(d - 1) : IsSpace(t[q])

NothingToRemove(t) ==
    /\ ~HasHashDigits(t)
    /\ ~Contains(t, Text("Merge pull request"))
    /\ ~Contains(t, Text("from"))
    /\ ~HasPrDigits(t)

\* A title in which lower-casing changes no character after the first.
LowerCasedAfterFirst(t) == \A i \in 2..Len(t) : LowerAt(t, i) = <<t[i]>>

\* ------------------------------------------------------------------------
\* Properties
\* ------------------------------------------------------------------------

\* C1: when the requested tag exists and a predecessor is found, the one log
\* query is the uncapped range <predecessor>..<tag>; the predecessor is the
\* entry right after the tag in the newest-first list, or the second-newest
\* tag when the tag passed the probe but is not listed; it is a listed tag,
\* differs from the requested tag and is never the text None.
C1_ExplicitRange ==
    (RangeChosen /\ exists /\ HasPredecessor) =>
        /\ cmd = Text("git log ") \o Predecessor \o Text("..") \o tag \o PrettyFormat
        /\ previous = Some(Predecessor)
        /\ Listed(tags, previous.value)
        /\ previous.value # tag
        /\ ~Contains(cmd, Text("None"))
        /\ ~Contains(cmd, Text("-n 50"))
        /\ Len(shell) <= 3
        /\ (LogIssued => shell[3] = cmd)

C1_Witness ==
    /\ LogIssued
    /\ exists
    /\ Listed(tags, tag)
    /\ HasPredecessor
    /\ shell[3] = Text("git log v1.0..v1.1") \o PrettyFormat

\* C2: when the requested tag exists and has no predecessor (it is the last
\* entry of the list, or it is not listed and the list holds fewer than two
\* tags), the log query is the tag itself capped with -n 50 and never a ".."
\* range.
C2_CappedQuery ==
    (RangeChosen /\ exists /\ ~HasPredecessor) =>
        /\ cmd = Text("git log ") \o tag \o PrettyFormat \o Text(" -n 50")
        /\ ~Contains(cmd, Text(".."))
        /\ Len(shell) <= 3
        /\ (LogIssued => shell[3] = cmd)

C2_Witness ==
    /\ LogIssued
    /\ exists
    /\ Listed(tags, tag)
    /\ Len(tags) = 2
    /\ ~HasPredecessor
    /\ shell[3] = Text("git log v1.1") \o PrettyFormat \o Text(" -n 50")

\* C3: the warning is on standard output exactly in the runs whose probe
\* found no tag, and it is there before the log query is issued; the query is
\* then <latestTag>..main when a tag exists and main capped with -n 50 when
\* none does.
C3_MissingTagWarning ==
    /\ ~RangeChosen => ~Warned
    /\ RangeChosen =>
        /\ Warned <=> ~exists
        /\ ~exists =>
            /\ stdout[2] = WarnLine
            /\ \A k \in DOMAIN stdout :
                 k # 2 => ~StartsAt(stdout[k], 1, Text("[WARN]"))
            /\ cmd = IF tags = <<>>
                     THEN Text("git log main") \o PrettyFormat \o Text(" -n 50")
                     ELSE Text("git log ") \o tags[1] \o Text("..main") \o PrettyFormat
        /\ Len(shell) <= 3
        /\ (LogIssued => shell[3] = cmd)

C3_Witness ==
    /\ pc = "run_log"
    /\ ~LogIssued
    /\ ~exists
    /\ Len(tags) = 2
    /\ stdout[2] = WarnLine
    /\ cmd = Text("git log ") \o tags[1] \o Text("..main") \o PrettyFormat

\* C4: whenever generate_changelog returns without having produced an entry,
\* its output is the heading followed by the no-commits line.
C4_NoEntriesBlock ==
    (Returned /\ entries = <<>>) => result = Some(NoCommitsBlock)

\* The block of a run that has returned starts with the heading and holds
\* one bullet for each record of three fields with a non-empty cleaned title,
\* none for the others, in the order of the fetched records.
BulletsInOrderWhenReturned ==
    Returned =>
        LET K == {i \in DOMAIN lines : Kept(lines[i])}
        IN  /\ StartsAt(Str(result), 1, Text("## ") \o tag \o Text("\n"))
            /\ Len(entries) = Cardinality(K)
            /\ \A k \in DOMAIN entries : entries[k] = BulletOf(lines[Ascending(K)[k]])
            /\ lines # <<>> =>
                 Str(result) = Text("## ") \o tag \o Text("\n") \o Join(entries, Text("\n"))

\* C5: for every fetched sequence of records generate_changelog returns a
\* block that starts with the heading and holds exactly one bullet for each
\* record with a non-empty cleaned title, none for the others, in the order
\* of the records: no fetch ends without its block, and the block of a run
\* that returns is made of these bullets.
C5_BulletPerRecordInOrder ==
    /\ pc # "crashed"
    /\ BulletsInOrderWhenReturned

C7_FailureIsEmpty ==
    /\ (Len(outcomes) >= 1 /\ outcomes[1].rc # 0) => tags = <<>>
    /\ (Len(outcomes) >= 2 /\ outcomes[2].rc # 0) => ~exists
    /\ (Len(outcomes) >= 3 /\ (outcomes[3].rc # 0 \/ Strip(outcomes[3].out) = <<>>)) =>
        /\ lines = <<>>
        /\ pc \in {"generate", "print_result", "done"}
        /\ Returned => result = Some(NoCommitsBlock)
        /\ pc = "done" => stdout[Len(stdout)] = NoCommitsBlock \o Text("\n")
    /\ Len(outcomes) = Len(shell)
    /\ Len(shell) <= 3

C7_Witness ==
    /\ pc = "done"
    /\ outcomes[3].rc # 0
    /\ outcomes[3].out # <<>>
    /\ result = Some(NoCommitsBlock)

\* C8: standard output is the title line followed by the rendered block and
\* nothing else.
C8_OnlyTitleAndBlock ==
    /\ stdout # <<>> => stdout[1] = TitleLine
    /\ \A k \in DOMAIN stdout :
         k > 1 => (Returned /\ stdout[k] = Str(result) \o Text("\n"))
    /\ pc = "done" => Len(stdout) = 2

\* C9: every bullet reads "- <title> by <author> (<link>)", title, author
\* and link those of the record's fields; the link is
\* "[#n](https://github.com/microsoft/durabletask-dotnet/pull/n)" with n the
\* first numeric token of the raw subject preceded by "#" or "PR", and it is
\* empty exactly when the subject holds no such token. The fields of a
\* record whose commit subject holds no "|" are the hash, that subject and
\* the author.
C9_BulletForm ==
    pc = "stepped" =>
        LET subject == Fields(lines[1])[2]
        IN  /\ Len(Fields(lines[1])) = 3
            /\ Kept(lines[1]) => entries = <<BulletOf(lines[1])>>
            /\ ~Kept(lines[1]) => entries = <<>>
            /\ LinkOf(subject) = <<>> <=> TokenStarts(subject) = {}
            /\ (\A i \in DOMAIN message : message[i] # Ord("|")) =>
                 /\ Fields(lines[1]) = <<Text("abc123"), message, Text("Jane Doe")>>
                 /\ info.title = extract_pr_info(subject).title

C9_Witness ==
    /\ pc = "stepped"
    /\ message = Text("Bump PR 77 and #5 deps")
    /\ entries =
         <<Text("- Bump  and  deps by Jane Doe ([#77](https://github.com/microsoft/durabletask-dotnet/pull/77))")>>

\* C10: whatever the number of fields of a line, generate_changelog does
\* not fail: the run never ends in an uncaught exception.
C10_NeverRaises == pc # "crashed"

=============================================================================
